---- MODULE Spec2Model ----
(***************************************************************************)
(* A model of libdb-rs, the safe-handle layer over Berkeley DB             *)
(* (src/src/db.rs, src/src/dbt.rs, src/src/error.rs).                      *)
(*                                                                         *)
(* The layer's objects (Arc<Env>, Arc<Db>, DatabaseBuilder, Transaction,    *)
(* Cursor, DBT) are the variables envArc, dbArc, bld, txns, curs and the   *)
(* results kept in `last`.  The storage engine behind the FFI calls is the *)
(* variable `eng`; the engine is outside the repository and is modelled    *)
(* from its call interface (the Eng_* operators).                          *)
(***************************************************************************)
EXTENDS Integers, Sequences, FiniteSets, TLC

(* ------------------------------ bounds -------------------------------- *)
MaxTxn == 2        \* transaction handles begun in one run
MaxDb == 2         \* databases opened in one run
MaxEnvRefs == 2    \* Environment handles the caller holds at once
MaxDbRefs == 2     \* Database handles the caller holds at once, per database
NumKeys == 2       \* distinct keys
NumVals == 2       \* distinct values
MaxBuf == 2        \* DBT values the caller holds in one run
MaxThreads == 2    \* threads sharing the handles
MaxRuns == 2       \* EnvironmentBuilders created in one behaviour
MaxErrno == 22     \* operating system error numbers 1..MaxErrno

TxnIds == 1..MaxTxn
DbIds == 1..MaxDb
Keys == 1..NumKeys
BufIds == 1..MaxBuf
Threads == 1..MaxThreads
ValIds == 1..NumVals

(* ------------------------- program constants -------------------------- *)
DB_BUFFER_SMALL == -30999
DB_KEYEXIST == -30995
DB_LOCK_DEADLOCK == -30994
DB_LOCK_NOTGRANTED == -30993
DB_LOG_BUFFER_FULL == -30992
DB_NOTFOUND == -30988
DB_RUNRECOVERY == -30974

\* errno values the engine passes through from the operating system
OsErrno == [ENOENT |-> 2, ENOMEM |-> 12, EINVAL |-> 22]

\* Flags::DB_NONE and the engine's insert-only-if-absent option
PutFlags == {"DB_NONE", "DB_NOOVERWRITE"}

(* --------------------------- byte strings ----------------------------- *)
\* The key and value byte strings of the runs.  Key i is i bytes long and
\* value i is i - 1 bytes long (value 1 is the empty string), so that
\* lengths differ and a length slip shows; the first byte of a key falls as i
\* grows, so that the byte order of the keys is not the order of their numbers.
KeyBytes(k) == [j \in 1..k |-> IF j = 1 THEN 90 - k ELSE 64 + j]
ValBytes(v) == [j \in 1..(v - 1) |-> 96 + v + j]
Vals == {ValBytes(v) : v \in ValIds}

\* Option<T>: None is the empty sequence, Some(x) is <<x>>.
None == << >>
Some(x) == <<x>>
IsSome(o) == Len(o) = 1
Unwrap(o) == o[1]

VARIABLES
    envArc,   \* the Arc<Env>: strong count, handles the caller holds
    dbArc,    \* per database: the Arc<Db> and the Db struct's env field
    bld,      \* the DatabaseBuilder being configured, if any
    txns,     \* per Transaction handle: its state and its txn_ptr
    curs,     \* the Cursor handle
    eng,      \* the storage engine behind the FFI
    last,     \* the last operation of the layer: its result and engine calls
    written,  \* the keys some put has stored so far, in the order of their
              \* first put (history)
    halted,   \* the process was ended by a call with a dangling handle
    ebld,     \* the EnvironmentBuilder being configured, if any
    heap,     \* the DBT values the caller holds and the memory behind them
    thr,      \* per thread: the Arc handles it holds and its step in a drop
    durable   \* per key, the value of the last put(None, ..) that returned Ok
              \* the run it was made in and whether its Database was opened
              \* against the Environment (history, kept in behaviours that
              \* begin with EnvironmentBuilder::new)

vars == <<envArc, dbArc, bld, txns, curs, eng, last, written, halted,
          ebld, heap, thr, durable>>

(* --------------------------- layer values ----------------------------- *)
\* ffi::DBT as the calls fill it: a data pointer (the bytes behind it) and a size.
FfiDbt(bytes, size) == [data |-> bytes, size |-> size]
EmptyDbt == FfiDbt(<< >>, 0)

ErrorNewGeneric(errno) == [errno |-> -1]

\* Error::new(errno)
ErrorNew(errno) == [errno |-> errno]

errnoNegated(err) == 0 - err.errno

\* Error::errno()
errno(err) == err.errno

\* Result<T, Error>
Ok(v) == [ok |-> TRUE, err |-> ErrorNew(0), val |-> v]
Err(e) == [ok |-> FALSE, err |-> e, val |-> << >>]

(* ------------------------------ engine -------------------------------- *)
\* What one engine call produces: the engine's next state, the status it
\* returns, the two DBTs it filled, whether the call was made on a handle the
\* engine had already released (bad), and whether the process was ended.
Out(e, status, bad, halt) ==
    [e |-> e, status |-> status, bad |-> bad, halt |-> halt,
     key |-> EmptyDbt, data |-> EmptyDbt]

\* A call on a released handle: the engine may report success or an error, or
\* the process may be ended.
Dangling(e, bad) ==
    {Out(e, 0, bad, FALSE), Out(e, OsErrno.EINVAL, bad, FALSE),
     Out(e, OsErrno.EINVAL, bad, TRUE)}

NoWrites == [k \in Keys |-> None]

RECURSIVE Ancestors(_, _)
Ancestors(e, t) ==
    IF t = 0 \/ e.txn[t].parent = 0 THEN {}
    ELSE {e.txn[t].parent} \cup Ancestors(e, e.txn[t].parent)

TxnActive(e, p) == p # 0 /\ e.txn[p].st = "active"

\* The transaction and its unresolved descendants.
Family(e, t) ==
    {u \in TxnIds : e.txn[u].st = "active" /\ (u = t \/ t \in Ancestors(e, u))}

\* Another unresolved transaction, not p nor an ancestor of p, holds the
\* write lock of key k.
Conflict(e, p, k) ==
    \E t \in TxnIds :
        /\ e.txn[t].st = "active"
        /\ e.txn[t].wr[k] # None
        /\ t # p
        /\ t \notin Ancestors(e, p)

\* The value of key k as transaction p (0: no transaction) sees it.
RECURSIVE View(_, _, _)
View(e, p, k) ==
    IF p = 0 THEN e.store[k]
    ELSE IF e.txn[p].wr[k] # None THEN e.txn[p].wr[k]
    ELSE View(e, e.txn[p].parent, k)

\* The writes of t with those of its unresolved children laid over them.
RECURSIVE EffWr(_, _, _)
EffWr(e, t, k) ==
    LET kids == {c \in TxnIds : e.txn[c].st = "active" /\ e.txn[c].parent = t
                                /\ EffWr(e, c, k) # None}
    IN  IF kids # {} THEN EffWr(e, CHOOSE c \in kids : TRUE, k) ELSE e.txn[t].wr[k]

\* The engine resolves t and its unresolved descendants.
Resolve(e, t, how) ==
    LET fam == Family(e, t)
        par == e.txn[t].parent
        merged == [k \in Keys |-> EffWr(e, t, k)]
        over(old) == [k \in Keys |-> IF merged[k] # None THEN merged[k] ELSE old[k]]
        done == [u \in TxnIds |->
                    IF u \in fam THEN [e.txn[u] EXCEPT !.st = how, !.wr = NoWrites]
                    ELSE IF how = "committed" /\ u = par
                    THEN [e.txn[u] EXCEPT !.wr = over(e.txn[u].wr)]
                    ELSE e.txn[u]]
    IN  [e EXCEPT !.txn = done,
                  !.store = IF how = "committed" /\ par = 0 THEN over(e.store)
                            ELSE e.store]

\* txn_begin(env_ptr, parent, &txn_ptr, flags)
Eng_txn_begin(e, id, pp) ==
    IF e.env # "open" \/ (pp # 0 /\ ~TxnActive(e, pp))
    THEN Dangling(e, "txn_begin")
    ELSE {Out([e EXCEPT !.txn[id] = [st |-> "active", parent |-> pp, wr |-> NoWrites]],
              0, "", FALSE),
          Out(e, OsErrno.ENOMEM, "", FALSE)}

\* txn->commit: on an error the engine aborts the transaction.
Eng_txn_commit(e, p) ==
    IF ~TxnActive(e, p) THEN Dangling(e, "txn_commit")
    ELSE {Out(Resolve(e, p, "committed"), 0, "", FALSE),
          Out(Resolve(e, p, "aborted"), DB_LOG_BUFFER_FULL, "", FALSE)}

\* txn->abort
Eng_txn_abort(e, p) ==
    IF ~TxnActive(e, p) THEN Dangling(e, "txn_abort")
    ELSE {Out(Resolve(e, p, "aborted"), 0, "", FALSE)}

\* The key a key DBT names: its first `size` bytes.
KeyOf(dbt) ==
    LET b == SubSeq(dbt.data, 1, dbt.size)
    IN  IF \E k \in Keys : KeyBytes(k) = b THEN CHOOSE k \in Keys : KeyBytes(k) = b ELSE 0

\* db->get with DB_DBT_MALLOC: the value is copied into a buffer the engine
\* allocates.
Eng_get(e, p, keyDbt) ==
    LET k == KeyOf(keyDbt) IN
    IF p # 0 /\ ~TxnActive(e, p)
    THEN {Out(e, OsErrno.EINVAL, "get", FALSE), Out(e, OsErrno.EINVAL, "get", TRUE)}
    ELSE IF k = 0 THEN {Out(e, DB_NOTFOUND, "", FALSE)}
    ELSE IF Conflict(e, p, k) THEN {Out(e, DB_LOCK_DEADLOCK, "", FALSE)}
    ELSE IF View(e, p, k) = None THEN {Out(e, DB_NOTFOUND, "", FALSE)}
    ELSE {[Out(e, 0, "", FALSE) EXCEPT
              !.data = FfiDbt(Unwrap(View(e, p, k)), Len(Unwrap(View(e, p, k))))]}

\* db->put: without a transaction the write is committed at once.
Eng_put(e, p, keyDbt, dataDbt, flags) ==
    LET k == KeyOf(keyDbt)
        v == SubSeq(dataDbt.data, 1, dataDbt.size)
    IN
    IF p # 0 /\ ~TxnActive(e, p) THEN Dangling(e, "put")
    ELSE IF k = 0 THEN {Out(e, OsErrno.EINVAL, "", FALSE)}
    ELSE IF Conflict(e, p, k) THEN {Out(e, DB_LOCK_DEADLOCK, "", FALSE)}
    ELSE IF flags = "DB_NOOVERWRITE" /\ View(e, p, k) # None
    THEN {Out(e, DB_KEYEXIST, "", FALSE)}
    ELSE IF p = 0 THEN {Out([e EXCEPT !.store[k] = Some(v)], 0, "", FALSE)}
    ELSE {Out([e EXCEPT !.txn[p].wr[k] = Some(v)], 0, "", FALSE)}

\* The order of an ordered-key (btree) database: bytewise, a prefix first.
BytesLess(a, b) ==
    \E i \in 1..Len(b) :
        /\ \A j \in 1..(i - 1) : j <= Len(a) /\ a[j] = b[j]
        /\ IF i <= Len(a) THEN a[i] < b[i] ELSE TRUE

\* db->cursor(db, NULL, &dbc, 0): a cursor positioned before the first record.
Eng_cursor(e, d) ==
    IF e.db[d].st # "open" THEN Dangling(e, "cursor")
    ELSE {Out([e EXCEPT !.cur = [st |-> "open", pos |-> 0]], 0, "", FALSE),
          Out(e, OsErrno.ENOMEM, "", FALSE)}

\* dbc->c_get(dbc, &key, &data, DB_NEXT) with DB_DBT_MALLOC: the record after
\* the cursor's position in key order, or DB_NOTFOUND at the end of the data.
Eng_c_get(e, d) ==
    LET after == {k \in Keys : /\ e.store[k] # None
                               /\ IF e.cur.pos = 0 THEN TRUE
                                  ELSE BytesLess(KeyBytes(e.cur.pos), KeyBytes(k))}
    IN
    IF e.cur.st # "open" \/ e.db[d].st # "open"
    THEN {Out(e, OsErrno.EINVAL, "c_get", FALSE), Out(e, OsErrno.EINVAL, "c_get", TRUE)}
    ELSE IF after = {} THEN {Out(e, DB_NOTFOUND, "", FALSE)}
    ELSE LET k == CHOOSE x \in after :
                     \A y \in after \ {x} : BytesLess(KeyBytes(x), KeyBytes(y))
         IN  IF Conflict(e, 0, k) THEN {Out(e, DB_LOCK_DEADLOCK, "", FALSE)}
             ELSE {[Out([e EXCEPT !.cur.pos = k], 0, "", FALSE) EXCEPT
                       !.key = FfiDbt(KeyBytes(k), Len(KeyBytes(k))),
                       !.data = FfiDbt(Unwrap(e.store[k]), Len(Unwrap(e.store[k])))]}

\* db_create(&db, env_ptr, 0): a native database object, not yet open.
Eng_db_create(e, d, bound) ==
    IF bound /\ e.env # "open" THEN Dangling(e, "db_create")
    ELSE {Out([e EXCEPT !.db[d] = [st |-> "created", env |-> bound, closes |-> 0]],
              0, "", FALSE)}

\* db->open(db, txn, file, name, type, flags, mode)
Eng_db_open(e, d, p) ==
    IF p # 0 /\ ~TxnActive(e, p) THEN Dangling(e, "db_open")
    ELSE {Out([e EXCEPT !.db[d].st = "open"], 0, "", FALSE),
          Out(e, OsErrno.ENOENT, "", FALSE)}

\* db->close(db, 0)
Eng_db_close(e, d) ==
    IF e.db[d].st \notin {"created", "open"} THEN Dangling(e, "db_close")
    ELSE {Out([e EXCEPT !.db[d].st = "closed", !.db[d].closes = @ + 1],
              0, "", FALSE)}

\* db_env_create(&env_ptr, 0): a native environment object, not yet open.
\* The ids of database handles closed earlier name new handles from here on.
Eng_env_create(e) ==
    {Out([e EXCEPT !.env = "created", !.envCloses = 0,
                   !.db = [d \in DbIds |->
                              IF e.db[d].st = "closed"
                              THEN [st |-> "none", env |-> FALSE, closes |-> 0]
                              ELSE e.db[d]]],
         0, "", FALSE),
     Out(e, OsErrno.ENOMEM, "", FALSE)}

\* env->open(env, home, flags, mode): after a failure the handle can only be
\* closed.
Eng_env_open(e) ==
    IF e.env # "created" THEN Dangling(e, "env_open")
    ELSE {Out([e EXCEPT !.env = "open"], 0, "", FALSE),
          Out(e, OsErrno.ENOENT, "", FALSE)}

\* env->close(env, 0): the engine aborts the transactions still unresolved,
\* releases their handles and reports an error.
Eng_env_close(e) ==
    IF e.env \notin {"created", "open"} THEN Dangling(e, "env_close")
    ELSE LET act == {t \in TxnIds : e.txn[t].st = "active"}
             openDb == {d \in DbIds : e.db[d].env /\ e.db[d].st \in {"created", "open"}}
             e2 == [e EXCEPT !.env = "closed", !.envCloses = @ + 1,
                             !.txn = [t \in TxnIds |->
                                         IF t \in act
                                         THEN [e.txn[t] EXCEPT !.st = "aborted",
                                                               !.wr = NoWrites]
                                         ELSE e.txn[t]]]
         IN  {Out(e2, IF act = {} THEN 0 ELSE OsErrno.EINVAL,
                  IF openDb # {} THEN "env_close before db_close" ELSE "", FALSE)}

(* -------------------- an operation's engine calls --------------------- *)
\* The engine state an operation has reached, the engine calls it has issued
\* so far, and whether one of them ended the process.
Run(e) == [e |-> e, calls |-> << >>, halt |-> FALSE]

Call(op, h, o) == [op |-> op, h |-> h, status |-> o.status, bad |-> o.bad]

After(r, op, h, o) ==
    [e |-> o.e, calls |-> Append(r.calls, Call(op, h, o)), halt |-> r.halt \/ o.halt]

Resolutions(calls, t) ==
    Cardinality({i \in DOMAIN calls :
                    calls[i].op \in {"txn_commit", "txn_abort"} /\ calls[i].h = t})

(* ------------------------------- layer -------------------------------- *)
RetryOnDeadlock(r, op, h, o) ==
    IF o.status = DB_LOCK_DEADLOCK THEN After(After(r, op, h, o), op, h, o)
    ELSE After(r, op, h, o)

\* The engine call of get, put, next, txn, commit and abort: made once, its
\* status matched on at once.
Once(r, op, h, o) == After(r, op, h, o)

unwrap_txn_ptrNull(txn) == 0

\* unwrap_txn_ptr: the transaction's txn_ptr, or null (0) for None.
unwrap_txn_ptr(txn) == IF txn = 0 THEN 0 ELSE txns[txn].ptr

PanicOnError(o) == [o EXCEPT !.halt = o.halt \/ o.status # 0]

\* The drop implementations call the engine as a statement: the status the
\* call returns is not looked at.
Discard(o) == o

\* impl Drop for Env
EnvDrop(r) ==
    IF r.halt THEN {r}
    ELSE {After(r, "env_close", 0, Discard(o)) : o \in Eng_env_close(r.e)}

\* Dropping one Arc<Env> reference: the Env is dropped with the last one.
ArcEnvDrop(r, strong) == IF strong = 1 THEN EnvDrop(r) ELSE {r}

DbEnvFieldNone(env) == FALSE

\* The env field of the Db that DatabaseBuilder::open builds.
DbEnvField(env) == env

\* impl Drop for Db, then the drop of its env field.
DbDrop(r, d, holdsEnv, strong) ==
    IF r.halt THEN {r}
    ELSE UNION {IF holdsEnv THEN ArcEnvDrop(After(r, "db_close", d, Discard(o)), strong)
                ELSE {After(r, "db_close", d, Discard(o))} : o \in Eng_db_close(r.e, d)}

TransactionDropNoAbort(r, t, ptr) == {r}

\* impl Drop for Transaction
TransactionDrop(r, t, ptr) ==
    IF r.halt \/ ptr = 0 THEN {r}
    ELSE {After(r, "txn_abort", t, Discard(o)) : o \in Eng_txn_abort(r.e, ptr)}

ResolvedPtrKept(ptr) == ptr

\* self.txn_ptr = ptr::null_mut() in commit and abort
ResolvedPtr(ptr) == 0

\* A Transaction handle: its state and txn_ptr; and, as history, the parent it
\* was begun with, the resolution calls issued for it, whether a child was begun
\* under it, the last value put under it per key, and the record the key held
\* outside the transaction at its first put of the key.
NoTxn == [h |-> "none", ptr |-> 0, parent |-> 0, calls |-> 0, kids |-> FALSE,
          put |-> NoWrites, pre |-> NoWrites]

\* The last operation: its name and arguments (transaction, database, key,
\* value bytes), the status of its main engine call, its result, the engine
\* calls it issued, whether the engine had its transaction unresolved when it
\* began (act), what the key held before it (was), the Transaction handle
\* as it was when a commit, abort or release consumed it (h), and the DBT it
\* read or released (b).
NoLast == [op |-> "init", t |-> 0, d |-> 0, k |-> 0, v |-> << >>,
           status |-> 0, res |-> Ok(<< >>), calls |-> << >>,
           act |-> FALSE, was |-> None, h |-> NoTxn, b |-> 0]

Op(op, t, d, r, status, res) ==
    [NoLast EXCEPT !.op = op, !.t = t, !.d = d, !.status = status, !.res = res,
                   !.calls = r.calls]

\* The handle after it was consumed: only the count of its resolution calls
\* is kept.
Gone(h, calls, t) ==
    [NoTxn EXCEPT !.h = "gone", !.calls = h.calls + Resolutions(calls, t)]

NextTxn == IF \E t \in TxnIds : txns[t].h = "none"
           THEN CHOOSE t \in TxnIds : txns[t].h = "none" /\ \A u \in 1..(t - 1) : txns[u].h # "none"
           ELSE 0

NextDb == IF \E d \in DbIds : eng.db[d].st = "none"
          THEN CHOOSE d \in DbIds : eng.db[d].st = "none" /\ \A u \in 1..(d - 1) : eng.db[u].st # "none"
          ELSE 0

\* Arc::clone of the caller's Environment
EnvClone ==
    /\ ~halted
    /\ envArc.user >= 1 /\ envArc.user < MaxEnvRefs
    /\ envArc' = [strong |-> envArc.strong + 1, user |-> envArc.user + 1]
    /\ last' = [NoLast EXCEPT !.op = "env_clone"]
    /\ UNCHANGED <<dbArc, bld, txns, curs, eng, written, halted>>
    /\ UNCHANGED <<ebld, heap, thr, durable>>

\* The caller drops one Environment handle.
EnvRelease ==
    /\ ~halted
    /\ envArc.user >= 1
    /\ \E r \in ArcEnvDrop(Run(eng), envArc.strong) :
        /\ envArc' = [strong |-> envArc.strong - 1, user |-> envArc.user - 1]
        /\ eng' = r.e
        /\ halted' = r.halt
        /\ last' = Op("env_drop", 0, 0, r, 0, Ok(<< >>))
    /\ UNCHANGED <<dbArc, bld, txns, curs, written>>
    /\ UNCHANGED <<ebld, heap, thr, durable>>

\* The match on the status of txn_begin in Env::txn.
TxnResult(o, id) == IF o.status = 0 THEN Ok(<<id>>) ELSE Err(ErrorNew(o.status))

\* The match on the status of txn->commit in Transaction::commit.
CommitResult(o) == IF o.status = 0 THEN Ok(<< >>) ELSE Err(ErrorNew(o.status))

\* The match on the status of txn->abort in Transaction::abort.
AbortResult(o) == IF o.status = 0 THEN Ok(<< >>) ELSE Err(ErrorNew(o.status))

TxnHandleAlways(o) == TRUE

\* Env::txn builds a Transaction only in the arm of status 0.
TxnHandle(o) == o.status = 0

BeginParentNone(parent) == 0

\* The parent argument of txn_begin in Env::txn: unwrap_txn_ptr(parent).
BeginParent(parent) == unwrap_txn_ptr(parent)

\* Env::txn(parent, flags)
Begin(parent) ==
    /\ ~halted
    /\ envArc.user >= 1
    /\ IF parent = 0 THEN TRUE ELSE txns[parent].h = "live"
    /\ NextTxn # 0
    /\ \E o \in Eng_txn_begin(eng, NextTxn, BeginParent(parent)) :
        LET r == Once(Run(eng), "txn_begin", NextTxn, o) IN
        /\ eng' = r.e
        /\ halted' = r.halt
        /\ IF TxnHandle(o)
           THEN /\ txns' = [t \in TxnIds |->
                              IF t = NextTxn THEN [NoTxn EXCEPT !.h = "live", !.ptr = NextTxn,
                                                           !.parent = parent]
                              ELSE IF t = parent THEN [txns[t] EXCEPT !.kids = TRUE]
                              ELSE txns[t]]
                /\ last' = Op("begin", parent, 0, r, o.status, TxnResult(o, NextTxn))
           ELSE /\ txns' = txns
                /\ last' = Op("begin", parent, 0, r, o.status, TxnResult(o, NextTxn))
    /\ UNCHANGED <<envArc, dbArc, bld, curs, written>>
    /\ UNCHANGED <<ebld, heap, thr, durable>>

\* Transaction::commit(mode): the engine call, the pointer reset, the result,
\* and the drop of the consumed handle.
Commit(t) ==
    /\ ~halted
    /\ txns[t].h = "live" /\ bld.txn # t
    /\ \E o \in Eng_txn_commit(eng, txns[t].ptr) :
        LET r1 == Once(Run(eng), "txn_commit", t, o)
            ret == CommitResult(o)
        IN  \E r \in TransactionDrop(r1, t, ResolvedPtr(txns[t].ptr)) :
            /\ eng' = r.e
            /\ halted' = r.halt
            /\ txns' = [txns EXCEPT ![t] = Gone(txns[t], r.calls, t)]
            /\ last' = [Op("commit", t, 0, r, o.status, ret) EXCEPT
                            !.act = TxnActive(eng, txns[t].ptr), !.h = txns[t]]
    /\ UNCHANGED <<envArc, dbArc, bld, curs, written>>
    /\ UNCHANGED <<ebld, heap, thr, durable>>

\* Transaction::abort()
Abort(t) ==
    /\ ~halted
    /\ txns[t].h = "live" /\ bld.txn # t
    /\ \E o \in Eng_txn_abort(eng, txns[t].ptr) :
        LET r1 == Once(Run(eng), "txn_abort", t, o)
            ret == AbortResult(o)
        IN  \E r \in TransactionDrop(r1, t, ResolvedPtr(txns[t].ptr)) :
            /\ eng' = r.e
            /\ halted' = r.halt
            /\ txns' = [txns EXCEPT ![t] = Gone(txns[t], r.calls, t)]
            /\ last' = [Op("abort", t, 0, r, o.status, ret) EXCEPT
                            !.act = TxnActive(eng, txns[t].ptr), !.h = txns[t]]
    /\ UNCHANGED <<envArc, dbArc, bld, curs, written>>
    /\ UNCHANGED <<ebld, heap, thr, durable>>

\* A Transaction handle goes out of scope without commit or abort.
TxnRelease(t) ==
    /\ ~halted
    /\ txns[t].h = "live" /\ bld.txn # t
    /\ \E r \in TransactionDrop(Run(eng), t, txns[t].ptr) :
        /\ eng' = r.e
        /\ halted' = r.halt
        /\ txns' = [txns EXCEPT ![t] = Gone(txns[t], r.calls, t)]
        /\ last' = [Op("txn_drop", t, 0, r, 0, Ok(<< >>)) EXCEPT
                        !.act = TxnActive(eng, txns[t].ptr), !.h = txns[t]]
    /\ UNCHANGED <<envArc, dbArc, bld, curs, written>>
    /\ UNCHANGED <<ebld, heap, thr, durable>>

\* One more engine call of an operation, unless the process has ended.
Then(r, op, h, outs) == IF r.halt THEN {r} ELSE {After(r, op, h, o) : o \in outs}

NoBld == [st |-> "none", env |-> FALSE, txn |-> 0]

\* DatabaseBuilder::new()
BuilderNew ==
    /\ ~halted
    /\ bld.st = "none" /\ NextDb # 0
    /\ bld' = [NoBld EXCEPT !.st = "cfg"]
    /\ last' = [NoLast EXCEPT !.op = "builder_new"]
    /\ UNCHANGED <<envArc, dbArc, txns, curs, eng, written, halted>>
    /\ UNCHANGED <<ebld, heap, thr, durable>>

\* DatabaseBuilder::environment(&env): the builder keeps a clone of the Arc.
BuilderEnvironment ==
    /\ ~halted
    /\ bld.st = "cfg" /\ ~bld.env /\ envArc.user >= 1
    /\ bld' = [bld EXCEPT !.env = TRUE]
    /\ envArc' = [envArc EXCEPT !.strong = @ + 1]
    /\ last' = [NoLast EXCEPT !.op = "builder_environment"]
    /\ UNCHANGED <<dbArc, txns, curs, eng, written, halted>>
    /\ UNCHANGED <<ebld, heap, thr, durable>>

\* DatabaseBuilder::transaction(&txn): the builder borrows the Transaction.
BuilderTransaction(t) ==
    /\ ~halted
    /\ bld.st = "cfg" /\ txns[t].h = "live"
    /\ bld' = [bld EXCEPT !.txn = t]
    /\ last' = [NoLast EXCEPT !.op = "builder_transaction", !.t = t]
    /\ UNCHANGED <<envArc, dbArc, txns, curs, eng, written, halted>>
    /\ UNCHANGED <<ebld, heap, thr, durable>>

\* The match on the status of db->open in DatabaseBuilder::open.
DbOpenResult(o, d) == IF o.status = 0 THEN Ok(<<d>>) ELSE Err(ErrorNew(o.status))

OpenFailedLeak(r, d) == {r}

\* The error arm of the match in DatabaseBuilder::open: db->close(db, 0).
OpenFailed(r, d) == Then(r, "db_close", d, Eng_db_close(r.e, d))

\* DatabaseBuilder::open(): db_create, db->open, and on an error db->close
\* before the builder (with its Environment reference) is dropped.
BuilderOpen ==
    /\ ~halted
    /\ bld.st = "cfg" /\ NextDb # 0
    /\ LET d == NextDb IN
       \E r1 \in Then(Run(eng), "db_create", d, Eng_db_create(eng, d, bld.env)) :
       \E oo \in Eng_db_open(r1.e, d, unwrap_txn_ptr(bld.txn)) :
        LET r2 == After(r1, "db_open", d, oo)
            held == DbEnvField(bld.env)
            freed == bld.env /\ ~(oo.status = 0 /\ held)
        IN  \E r3 \in (IF oo.status = 0 THEN {r2} ELSE OpenFailed(r2, d)) :
            \E r \in (IF freed THEN ArcEnvDrop(r3, envArc.strong) ELSE {r3}) :
                /\ eng' = r.e
                /\ halted' = r.halt
                /\ envArc' = [envArc EXCEPT !.strong = IF freed THEN @ - 1 ELSE @]
                /\ dbArc' = IF oo.status = 0
                            THEN [dbArc EXCEPT ![d] = [strong |-> 1, env |-> held]]
                            ELSE dbArc
                /\ last' = Op("db_open", bld.txn, d, r, oo.status, DbOpenResult(oo, d))
    /\ bld' = NoBld
    /\ UNCHANGED <<txns, curs, written>>
    /\ UNCHANGED <<ebld, heap, thr, durable>>

\* Arc::clone of a Database
DbClone(d) ==
    /\ ~halted
    /\ dbArc[d].strong >= 1 /\ dbArc[d].strong < MaxDbRefs
    /\ dbArc' = [dbArc EXCEPT ![d].strong = @ + 1]
    /\ last' = [NoLast EXCEPT !.op = "db_clone", !.d = d]
    /\ UNCHANGED <<envArc, bld, txns, curs, eng, written, halted>>
    /\ UNCHANGED <<ebld, heap, thr, durable>>

\* The caller drops one Database handle; the Db is dropped with the last one.
DbRelease(d) ==
    /\ ~halted
    /\ dbArc[d].strong >= 1
    /\ LET lastRef == dbArc[d].strong = 1
           freed == lastRef /\ dbArc[d].env
       IN  \E r \in (IF lastRef THEN DbDrop(Run(eng), d, dbArc[d].env, envArc.strong)
                     ELSE {Run(eng)}) :
            /\ eng' = r.e
            /\ halted' = r.halt
            /\ envArc' = [envArc EXCEPT !.strong = IF freed THEN @ - 1 ELSE @]
            /\ dbArc' = [dbArc EXCEPT ![d].strong = @ - 1]
            /\ last' = Op("db_drop", 0, d, r, 0, Ok(<< >>))
    /\ UNCHANGED <<bld, txns, curs, written>>
    /\ UNCHANGED <<ebld, heap, thr, durable>>

EnvSettings == {"home", "flags", "mode"}

\* The EnvironmentBuilder: its state, its env_ptr (0: null), the settings
\* made, the value of each of its fields (0: as new() set it), and the number
\* of builders created so far.
NoEbld == [st |-> "none", ptr |-> 0, set |-> {}, runs |-> 0,
           val |-> [f \in EnvSettings |-> 0]]

\* A DBT the caller holds and the memory behind it: who allocated the memory
\* and how often it was freed.
NoBuf == [h |-> "none", dbt |-> [tag |-> "none"], mem |-> "none", frees |-> 0]
NoHeap == [b \in BufIds |-> NoBuf]

\* The put a thread has called: its key and value, whether the engine worked
\* on another call on the same handle meanwhile, the handle not being
\* free-threaded (race), and what the put returned.
NoPut == [k |-> 0, v |-> 0, race |-> FALSE, ret |-> None]

\* A thread: the Environment and Database handles it holds, the Arc whose
\* count it has decremented to zero and whose value it is about to drop, and
\* its put.
NoThr == [th \in Threads |-> [env |-> 0, db |-> 0, pc |-> "idle", put |-> NoPut]]

\* The Cursor handle; and, as history, the pairs its next() calls have
\* yielded (as the caller reads them) while no put has stored a record since it
\* was opened (clean).
NoCur == [h |-> "none", clean |-> TRUE, got |-> << >>]

\* `thread`: the environment was opened with the flag that makes its handles,
\* and those of the databases opened against it, free-threaded.
InitEng ==
    [env |-> "open", envCloses |-> 0, thread |-> FALSE,
     db |-> [d \in DbIds |-> [st |-> "none", env |-> FALSE, closes |-> 0]],
     txn |-> [t \in TxnIds |-> [st |-> "none", parent |-> 0, wr |-> NoWrites]],
     store |-> [k \in Keys |-> None],
     cur |-> [st |-> "none", pos |-> 0]]

\* After EnvironmentBuilder::new().open() returned Ok: one Environment handle.
InitLife ==
    /\ envArc = [strong |-> 1, user |-> 1]
    /\ dbArc = [d \in DbIds |-> [strong |-> 0, env |-> FALSE]]
    /\ bld = NoBld
    /\ txns = [t \in TxnIds |-> NoTxn]
    /\ curs = NoCur
    /\ eng = InitEng
    /\ last = NoLast
    /\ written = << >>
    /\ halted = FALSE
    /\ ebld = NoEbld
    /\ heap = NoHeap
    /\ thr = NoThr
    /\ durable = NoWrites

NextLife ==
    \/ EnvClone
    \/ EnvRelease
    \/ \E p \in {0} \cup TxnIds : Begin(p)
    \/ \E t \in TxnIds : Commit(t)
    \/ \E t \in TxnIds : Abort(t)
    \/ \E t \in TxnIds : TxnRelease(t)
    \/ BuilderNew
    \/ BuilderEnvironment
    \/ \E t \in TxnIds : bld.txn = 0 /\ BuilderTransaction(t)
    \/ BuilderOpen
    \/ \E d \in DbIds : DbClone(d)
    \/ \E d \in DbIds : DbRelease(d)

SpecLife == InitLife /\ [][NextLife]_vars

(* ------------------------- handle lifecycle --------------------------- *)
IsResolution(c) == c.op \in {"txn_commit", "txn_abort"}

\* C3: for every Transaction handle that is gone, the layer issued exactly
\* one resolution call (commit or abort) to the engine: commit() and abort()
\* issue their one call and the release that follows issues no abort,
\* whether the call returned success or an Error; a release without explicit
\* resolution issues exactly one abort; a live handle has had none.
C3_ExactlyOneResolution ==
    /\ \A t \in TxnIds : txns[t].h = "gone" => txns[t].calls = 1
    /\ \A t \in TxnIds : txns[t].h = "live" => txns[t].calls = 0
    /\ last.op = "commit" =>
          /\ Len(last.calls) = 1
          /\ last.calls[1].op = "txn_commit" /\ last.calls[1].h = last.t
          /\ last.res.ok = (last.calls[1].status = 0)
    /\ last.op = "abort" =>
          /\ Len(last.calls) = 1
          /\ last.calls[1].op = "txn_abort" /\ last.calls[1].h = last.t
          /\ last.res.ok = (last.calls[1].status = 0)
    /\ last.op = "txn_drop" =>
          /\ Len(last.calls) = 1
          /\ last.calls[1].op = "txn_abort" /\ last.calls[1].h = last.t

\* A commit() returned an Error and its handle is gone after one engine call.
C3_Witness ==
    /\ last.op = "commit" /\ ~last.res.ok /\ ~halted
    /\ txns[last.t].h = "gone" /\ txns[last.t].calls = 1
    /\ \E t \in TxnIds : t # last.t /\ txns[t].h = "gone" /\ txns[t].calls = 1

\* C4: while the environment is open, the layer issues no commit or abort
\* call to the engine for a transaction that is already resolved, a child
\* the engine resolved with its parent included.
C4_NoSecondResolution ==
    eng.env = "open" =>
        \A i \in DOMAIN last.calls : IsResolution(last.calls[i]) => last.calls[i].bad = ""

\* C5: the Environment's engine close is never issued while a Database
\* opened against it has not issued its own close; within one release the
\* Database's close comes first.
C5_DbClosedBeforeEnv ==
    /\ eng.env = "closed" =>
          \A d \in DbIds : eng.db[d].env => eng.db[d].st \notin {"created", "open"}
    /\ \A i \in DOMAIN last.calls :
          last.calls[i].op = "env_close" =>
              /\ last.calls[i].bad # "env_close before db_close"
              /\ \A j \in DOMAIN last.calls : last.calls[j].op = "db_close" => j < i

\* The caller dropped its Environment handles first; the release of the last
\* Database then closed the database and, after it, the environment.
C5_Witness ==
    /\ last.op = "db_drop" /\ envArc.user = 0
    /\ Len(last.calls) = 2
    /\ last.calls[1].op = "db_close" /\ last.calls[2].op = "env_close"
    /\ \E d \in DbIds : d # last.d /\ eng.db[d].env /\ eng.db[d].st = "closed"

\* C6: the Environment is not closed while a Transaction begun from it is
\* still held unresolved, and no commit or abort is issued once it is closed.
C6_EnvClosedAfterTxns ==
    eng.env = "closed" =>
        /\ \A t \in TxnIds : txns[t].h # "live"
        /\ \A i \in DOMAIN last.calls : ~IsResolution(last.calls[i])

CallsOf(calls, op, d) == {i \in DOMAIN calls : calls[i].op = op /\ calls[i].h = d}

\* C26: a begin the engine rejects returns an Error and creates no
\* Transaction handle: the handles are as before, the parent, if unresolved
\* before, is still held and unresolved, and a commit or abort is only ever
\* issued through a Transaction handle that exists.
C26_FailedBeginNoHandle ==
    [][ /\ (last'.op = "begin" /\ last'.status # 0) =>
              /\ ~last'.res.ok
              /\ txns' = txns
              /\ last'.t # 0 =>
                    /\ txns'[last'.t].h = "live"
                    /\ TxnActive(eng, txns[last'.t].ptr) =>
                          TxnActive(eng', txns'[last'.t].ptr)
        /\ \A i \in DOMAIN last'.calls :
              last'.calls[i].op \in {"txn_commit", "txn_abort"} =>
                  txns[last'.calls[i].h].h = "live"
      ]_vars

\* The begin of a child was rejected by the engine for lack of memory: the
\* parent is the only Transaction held and it is unresolved.
C26_Witness ==
    /\ last.op = "begin" /\ last.status = OsErrno.ENOMEM /\ ~last.res.ok
    /\ last.t # 0 /\ txns[last.t].h = "live" /\ TxnActive(eng, txns[last.t].ptr)
    /\ \A t \in TxnIds : t # last.t => txns[t].h = "none" /\ eng.txn[t].st = "none"

ReleaseOps == {"txn_drop", "db_drop", "env_drop", "env_builder_drop"}

C16_FailedDbOpenCloses ==
    (last.op = "db_open" /\ last.status # 0 /\ ~halted) =>
        /\ last.res = Err(ErrorNew(last.status))
        /\ dbArc[last.d].strong = 0
        /\ Cardinality(CallsOf(last.calls, "db_close", last.d)) = 1
        /\ eng.db[last.d].st = "closed" /\ eng.db[last.d].closes = 1
        /\ \A i \in CallsOf(last.calls, "db_close", last.d) :
              /\ \A j \in CallsOf(last.calls, "db_open", last.d) : j < i
              /\ \A j \in DOMAIN last.calls : last.calls[j].op = "env_close" => i < j

\* The failed open was made by a builder that held the last Environment
\* reference: the database was closed, then the environment.
C16_Witness ==
    /\ last.op = "db_open" /\ last.status = OsErrno.ENOENT
    /\ Len(last.calls) = 4
    /\ last.calls[3].op = "db_close" /\ last.calls[4].op = "env_close"
    /\ last.calls[3].bad = "" /\ last.calls[4].bad = ""
    /\ eng.db[last.d].closes = 1 /\ eng.envCloses = 1

(* --------------------------- records: get/put ------------------------- *)
\* The database the records of the runs are kept in.
DataDb == 1

\* impl From<ffi::DBT> for DBT: the engine-allocated variant.
DBTFrom(ffi) == [tag |-> "Ptr", ptr |-> ffi, slice |-> << >>]

as_sliceShort(dbt) ==
    IF dbt.tag = "Owned" THEN dbt.slice
    ELSE SubSeq(dbt.ptr.data, 1, dbt.ptr.size - 1)

\* DBT::as_slice: slice::from_raw_parts(ptr.data, ptr.size)
as_slice(dbt) ==
    IF dbt.tag = "Owned" THEN dbt.slice
    ELSE SubSeq(dbt.ptr.data, 1, dbt.ptr.size)

\* key_dbt / data_dbt of get and put: the slice's pointer and its length.
SliceDbt(bytes) == FfiDbt(bytes, Len(bytes))

GetResultNoIntercept(o) ==
    IF o.status = 0 THEN Ok(Some(DBTFrom(o.data))) ELSE Err(ErrorNew(o.status))

\* The match on the status of db->get in Db::get.
GetResult(o) ==
    IF o.status = 0 THEN Ok(Some(DBTFrom(o.data)))
    ELSE IF o.status = DB_NOTFOUND THEN Ok(None)
    ELSE Err(ErrorNew(o.status))

PutResultAlwaysOk(o) == Ok(<< >>)

\* The match on the status of db->put in Db::put.
PutResult(o) == IF o.status = 0 THEN Ok(<< >>) ELSE Err(ErrorNew(o.status))

\* What Db::get(txn, key, DB_NONE) returns in the current state.
DbGet(t, k) ==
    {GetResult(o) : o \in Eng_get(eng, unwrap_txn_ptr(t), SliceDbt(KeyBytes(k)))}

\* The bytes the caller reads from a get result that holds a record.
ReadBack(res) ==
    IF res.ok /\ IsSome(res.val) THEN as_slice(Unwrap(res.val)) ELSE << >>

Written == {written[i] : i \in DOMAIN written}

\* Db::put(txn, key, data, flags)
Put(t, k, v, flags) ==
    /\ ~halted
    /\ dbArc[DataDb].strong >= 1
    /\ IF t = 0 THEN TRUE ELSE txns[t].h = "live"
    /\ \E o \in Eng_put(eng, unwrap_txn_ptr(t), SliceDbt(KeyBytes(k)),
                        SliceDbt(ValBytes(v)), flags) :
        LET r == Once(Run(eng), "put", DataDb, o)
        IN  /\ eng' = r.e
            /\ halted' = r.halt
            /\ txns' = IF o.status = 0 /\ t # 0
                       THEN [txns EXCEPT ![t].put[k] = Some(ValBytes(v)),
                                         ![t].pre[k] = IF @ = None THEN Some(eng.store[k]) ELSE @]
                       ELSE txns
            /\ written' = IF o.status = 0 /\ k \notin Written THEN Append(written, k)
                           ELSE written
            /\ curs' = IF o.status = 0 /\ curs.h = "live"
                        THEN [curs EXCEPT !.clean = FALSE, !.got = << >>]
                        ELSE curs
            /\ durable' = IF PutResult(o).ok /\ t = 0 /\ ebld.runs > 0
                           THEN [durable EXCEPT ![k] = Some([v |-> ValBytes(v),
                                                             run |-> ebld.runs,
                                                             env |-> dbArc[DataDb].env])]
                           ELSE durable
            /\ last' = [Op("put", t, DataDb, r, o.status, PutResult(o)) EXCEPT
                            !.k = k, !.v = ValBytes(v), !.was = eng.store[k]]
    /\ UNCHANGED <<envArc, dbArc, bld>>
    /\ UNCHANGED <<ebld, heap, thr>>

\* Db::get(txn, key, DB_NONE); the caller reads the returned buffer.
Get(t, k) ==
    /\ ~halted
    /\ dbArc[DataDb].strong >= 1
    /\ IF t = 0 THEN TRUE ELSE txns[t].h = "live"
    /\ \E o \in Eng_get(eng, unwrap_txn_ptr(t), SliceDbt(KeyBytes(k))) :
        LET r == Once(Run(eng), "get", DataDb, o) IN
        /\ eng' = r.e
        /\ halted' = r.halt
        /\ last' = [Op("get", t, DataDb, r, o.status, GetResult(o)) EXCEPT
                        !.k = k, !.v = ReadBack(GetResult(o))]
    /\ UNCHANGED <<envArc, dbArc, bld, txns, curs, written>>
    /\ UNCHANGED <<ebld, heap, thr, durable>>

\* After open_test_db: the Environment and one Database opened against it.
InitData ==
    /\ envArc = [strong |-> 2, user |-> 1]
    /\ dbArc = [d \in DbIds |-> IF d = DataDb THEN [strong |-> 1, env |-> TRUE]
                                ELSE [strong |-> 0, env |-> FALSE]]
    /\ bld = NoBld
    /\ txns = [t \in TxnIds |-> NoTxn]
    /\ curs = NoCur
    /\ eng = [InitEng EXCEPT !.db[DataDb] = [st |-> "open", env |-> TRUE, closes |-> 0]]
    /\ last = NoLast
    /\ written = << >>
    /\ halted = FALSE
    /\ ebld = NoEbld
    /\ heap = NoHeap
    /\ thr = NoThr
    /\ durable = NoWrites

NextData ==
    \/ \E p \in {0} \cup TxnIds : Begin(p)
    \/ \E t \in TxnIds : Commit(t)
    \/ \E t \in TxnIds : Abort(t)
    \/ \E t \in TxnIds : TxnRelease(t)
    \/ \E t \in {0} \cup TxnIds, k \in Keys, v \in ValIds, f \in PutFlags : Put(t, k, v, f)
    \/ \E t \in {0} \cup TxnIds, k \in Keys : Get(t, k)

SpecData == InitData /\ [][NextData]_vars

(* ------------------------ transactions and records -------------------- *)
\* get(None, k) returns Some of exactly these bytes.
GetsBytes(k, bytes) ==
    \A res \in DbGet(0, k) : res.ok /\ IsSome(res.val) /\ ReadBack(res) = bytes

\* get(None, k) returns the record `rec` (an Option of bytes).
GetsRecord(k, rec) ==
    IF rec = None THEN DbGet(0, k) = {Ok(None)} ELSE GetsBytes(k, Unwrap(rec))

\* The keys put under the Transaction the last operation consumed.
PutKeys == {k \in Keys : last.h.put[k] # None}

\* The last operation consumed a Transaction begun without a parent.
TopLevel(op) == ~halted /\ last.op = op /\ last.h.parent = 0

\* C1 as stated (for a top-level transaction and a commit that succeeds):
\* after put(k, v) under the transaction, abort() leaves k absent, get(None, k)
\* returning Ok(None), and commit() leaves get(None, k) returning Some(v).
C1_AbortAbsentCommitPresent ==
    /\ TopLevel("abort") => \A k \in PutKeys : DbGet(0, k) = {Ok(None)}
    /\ (TopLevel("commit") /\ last.res.ok) =>
          \A k \in PutKeys : GetsBytes(k, Unwrap(last.h.put[k]))

\* C1 amended: for a top-level transaction that put k, abort() leaves
\* get(None, k) returning the record k held before the transaction wrote it
\* (Ok(None) only if k was absent); commit() that returns Ok, when no child
\* was begun under the transaction, leaves get(None, k) returning Some(v) for
\* the last v put.
C1_AbortRestoresCommitPublishes ==
    /\ TopLevel("abort") =>
          \A k \in PutKeys : GetsRecord(k, Unwrap(last.h.pre[k]))
    /\ (TopLevel("commit") /\ last.res.ok /\ ~last.h.kids) =>
          \A k \in PutKeys : GetsBytes(k, Unwrap(last.h.put[k]))

\* abort() of a top-level transaction restored a record that was present
\* before the transaction overwrote it with other bytes.
C1_Witness ==
    /\ TopLevel("abort") /\ last.res.ok
    /\ \E k \in PutKeys :
          /\ IsSome(Unwrap(last.h.pre[k]))
          /\ Unwrap(last.h.pre[k]) # last.h.put[k]
          /\ GetsRecord(k, Unwrap(last.h.pre[k]))

\* The release issued exactly one engine abort, on an unresolved transaction.
OneAbort ==
    /\ last.calls = <<[op |-> "txn_abort", h |-> last.t, status |-> 0, bad |-> ""]>>
    /\ eng.txn[last.t].st = "aborted"

\* C2 as stated: a Transaction released while the engine has it unresolved
\* is aborted, and get(None, k) returns Ok(None) for every key put under it.
C2_DropLeavesAbsent ==
    (~halted /\ last.op = "txn_drop" /\ last.act) =>
        /\ OneAbort
        /\ last.h.parent = 0 => \A k \in PutKeys : DbGet(0, k) = {Ok(None)}

\* C2 amended: a Transaction released while the engine has it unresolved
\* is aborted by exactly one engine abort, as abort() does; for a top-level
\* transaction get(None, k) then returns, for every key put under it, the
\* record k held before the transaction wrote it (Ok(None) only if absent).
C2_DropAborts ==
    (~halted /\ last.op = "txn_drop" /\ last.act) =>
        /\ OneAbort
        /\ last.h.parent = 0 =>
              \A k \in PutKeys : GetsRecord(k, Unwrap(last.h.pre[k]))

\* A released top-level transaction had put two keys, one absent before and
\* one present: the first is absent again, the second holds its old record.
C2_Witness ==
    /\ TopLevel("txn_drop") /\ last.act /\ OneAbort
    /\ \E k \in PutKeys : last.h.pre[k] = Some(None) /\ DbGet(0, k) = {Ok(None)}
    /\ \E k \in PutKeys : IsSome(Unwrap(last.h.pre[k]))
                          /\ GetsRecord(k, Unwrap(last.h.pre[k]))

\* C7: after put(None, k, v) returned Ok, get(None, k) returns Ok(Some(b))
\* with b's bytes equal to v, whatever k held before.
C7_PutThenGet ==
    /\ (~halted /\ last.op = "put" /\ last.t = 0 /\ last.res.ok) =>
          GetsBytes(last.k, last.v)
    /\ (last.op = "get" /\ last.res.ok /\ IsSome(last.res.val)) =>
          /\ Some(last.v) = View(eng, unwrap_txn_ptr(last.t), last.k)
          /\ Unwrap(last.res.val).tag = "Ptr"

\* A put without a transaction replaced a different, longer value.
C7_Witness ==
    /\ last.op = "put" /\ last.t = 0 /\ last.res.ok
    /\ IsSome(last.was) /\ Len(Unwrap(last.was)) > Len(last.v)
    /\ GetsBytes(last.k, last.v)

\* C8: get on a key no put has stored returns Ok(None); the engine's
\* not-found status is returned as Ok(None), never as an Error.
C8_NotFoundIsNone ==
    last.op = "get" =>
        /\ last.status = DB_NOTFOUND => last.res = Ok(None)
        /\ (last.k \notin Written /\ last.calls[1].bad = "") => last.res = Ok(None)

\* A get of a key never written returned Ok(None) while another key is stored.
C8_Witness ==
    /\ last.op = "get" /\ last.k \notin Written /\ Written # {}
    /\ last.status = DB_NOTFOUND /\ last.res = Ok(None)

\* The Transaction handles still held that were begun under t, directly or
\* under one of its children.
RECURSIVE Under(_, _)
Under(c, t) ==
    IF txns[c].parent = 0 THEN FALSE
    ELSE txns[c].parent = t \/ Under(txns[c].parent, t)

OpenKids == {c \in TxnIds : txns[c].h = "live" /\ Under(c, last.t)}

\* C18 as stated: after abort() of a parent no key put under the parent or
\* under one of its still-open children is present.
C18_ParentAbortLeavesAbsent ==
    TopLevel("abort") =>
        /\ \A k \in PutKeys : DbGet(0, k) = {Ok(None)}
        /\ \A c \in OpenKids : \A k \in Keys :
              txns[c].put[k] # None => DbGet(0, k) = {Ok(None)}

\* C18 amended: after abort() of a top-level parent, get(None, k) returns,
\* for every key put under the parent or under one of its still-open children,
\* the record the key held before they wrote it (Ok(None) only if absent).
C18_ParentAbortRestores ==
    TopLevel("abort") =>
        /\ \A k \in PutKeys : GetsRecord(k, Unwrap(last.h.pre[k]))
        /\ \A c \in OpenKids : \A k \in Keys :
              txns[c].put[k] # None => GetsRecord(k, Unwrap(txns[c].pre[k]))

\* abort() of a parent rolled back a put of its still-open child: one on a
\* key that was absent before and, under the parent, one on a key that held a
\* record before.
C18_Witness ==
    /\ TopLevel("abort") /\ last.res.ok
    /\ \E c \in OpenKids : \E k \in Keys :
          /\ txns[c].put[k] = Some(ValBytes(NumVals))
          /\ txns[c].pre[k] = Some(None)
          /\ DbGet(0, k) = {Ok(None)}
          /\ eng.txn[c].st = "aborted"
    /\ \E k \in PutKeys : /\ IsSome(Unwrap(last.h.pre[k]))
                          /\ GetsRecord(k, Unwrap(last.h.pre[k]))

(* ------------------------------ cursor -------------------------------- *)
\* The match on the status of db->cursor in Db::cursor.
CursorResult(o) == IF o.status = 0 THEN Ok(<<"dbc">>) ELSE Err(ErrorNew(o.status))

NextResultSwapped(o) ==
    IF o.status = 0 THEN Ok(<<Some(DBTFrom(o.data)), Some(DBTFrom(o.key))>>)
    ELSE Err(ErrorNew(o.status))

\* The match on the status of dbc->c_get in Cursor::next.
NextResult(o) ==
    IF o.status = 0 THEN Ok(<<Some(DBTFrom(o.key)), Some(DBTFrom(o.data))>>)
    ELSE Err(ErrorNew(o.status))

\* The key and value bytes the caller reads from a next() result.
ReadPair(res) == <<as_slice(Unwrap(res.val[1])), as_slice(Unwrap(res.val[2]))>>

\* Db::cursor()
CursorOpen ==
    /\ ~halted
    /\ dbArc[DataDb].strong >= 1
    /\ curs.h = "none"
    /\ \E o \in Eng_cursor(eng, DataDb) :
        LET r == After(Run(eng), "cursor", DataDb, o) IN
        /\ eng' = r.e
        /\ halted' = r.halt
        /\ curs' = IF o.status = 0 THEN [NoCur EXCEPT !.h = "live"] ELSE curs
        /\ last' = Op("cursor", 0, DataDb, r, o.status, CursorResult(o))
    /\ UNCHANGED <<envArc, dbArc, bld, txns, written>>
    /\ UNCHANGED <<ebld, heap, thr, durable>>

\* Cursor::next(); the caller reads the two returned buffers.
CursorNext ==
    /\ ~halted
    /\ curs.h = "live"
    /\ \E o \in Eng_c_get(eng, DataDb) :
        LET r == Once(Run(eng), "c_get", DataDb, o)
            res == NextResult(o)
        IN  /\ eng' = r.e
            /\ halted' = r.halt
            /\ curs' = IF res.ok /\ curs.clean
                       THEN [curs EXCEPT !.got = Append(@, ReadPair(res))]
                       ELSE curs
            /\ last' = Op("next", 0, DataDb, r, o.status, res)
    /\ UNCHANGED <<envArc, dbArc, bld, txns, written>>
    /\ UNCHANGED <<ebld, heap, thr, durable>>

\* The Cursor goes out of scope: the struct has no Drop implementation.
CursorRelease ==
    /\ ~halted
    /\ curs.h = "live"
    /\ curs' = [NoCur EXCEPT !.h = "gone"]
    /\ last' = [NoLast EXCEPT !.op = "cursor_drop"]
    /\ UNCHANGED <<envArc, dbArc, bld, txns, eng, written, halted>>
    /\ UNCHANGED <<ebld, heap, thr, durable>>

NextCursor ==
    \/ \E k \in Keys, v \in ValIds, f \in PutFlags : Put(0, k, v, f)
    \/ CursorOpen
    \/ CursorNext
    \/ CursorRelease
    \/ DbRelease(DataDb)

SpecCursor == InitData /\ [][NextCursor]_vars

\* The stored pairs, as bytes, in ascending key order.
RECURSIVE Ascending(_)
Ascending(ks) ==
    IF ks = {} THEN << >>
    ELSE LET k == CHOOSE x \in ks :
                     \A y \in ks \ {x} : BytesLess(KeyBytes(x), KeyBytes(y))
         IN  <<<<KeyBytes(k), Unwrap(eng.store[k])>>>> \o Ascending(ks \ {k})

StoredPairs == Ascending({k \in Keys : eng.store[k] # None})

\* C9: when the engine reports end-of-data to next(), the call reports the
\* "no more records" outcome, Ok with no key and no value, and not an Error.
C9_ExhaustionIsNotError ==
    (last.op = "next" /\ last.status = DB_NOTFOUND) =>
        last.res.ok /\ last.res.val = <<None, None>>

\* C10: while no record is stored after the cursor was opened, its next()
\* calls yield the stored pairs in ascending key order, one pair per call,
\* each once and with its own value, and end-of-data comes only after the last.
C10_AscendingPairs ==
    (curs.h = "live" /\ curs.clean /\ ~halted) =>
        /\ Len(curs.got) <= Len(StoredPairs)
        /\ curs.got = SubSeq(StoredPairs, 1, Len(curs.got))
        /\ (last.op = "next" /\ last.res.ok) =>
              /\ IsSome(last.res.val[1]) /\ IsSome(last.res.val[2])
              /\ ReadPair(last.res) = StoredPairs[Len(curs.got)]
        /\ (last.op = "next" /\ last.status = DB_NOTFOUND) =>
              curs.got = StoredPairs

\* All the keys were put in descending key order and the cursor yielded all
\* of them in ascending order.
C10_Witness ==
    /\ curs.h = "live" /\ curs.clean /\ last.op = "next" /\ last.res.ok
    /\ Len(written) = NumKeys
    /\ \A i \in 1..(NumKeys - 1) :
          BytesLess(KeyBytes(written[i + 1]), KeyBytes(written[i]))
    /\ curs.got = StoredPairs /\ Len(curs.got) = NumKeys

\* C11: when a Cursor is gone, the engine cursor it wrapped has been closed.
C11_CursorClosedOnRelease ==
    curs.h = "gone" => eng.cur.st = "closed"

\* C12: the Database's engine close is not issued while a Cursor created from
\* it exists, and no next() reaches the engine on a cursor of a closed Database.
C12_NoCursorAfterDbClose ==
    /\ curs.h = "live" => eng.db[DataDb].st = "open"
    /\ last.op = "next" => last.calls[1].bad = ""

(* ------------------------------ buffers ------------------------------- *)
\* DBT::Owned(&[u8]): a view of memory the caller owns.
DBTOwned(bytes) == [tag |-> "Owned", ptr |-> EmptyDbt, slice |-> bytes]

DBTDropNoFree(buf) == [buf EXCEPT !.h = "gone"]

\* impl Drop for DBT: libc::free of the data of the Ptr variant only.
DBTDrop(buf) ==
    [buf EXCEPT !.h = "gone", !.frees = IF buf.dbt.tag = "Ptr" THEN @ + 1 ELSE @]

\* The caller binds a DBT to a variable.
Hold(dbt, mem) == [h |-> "held", dbt |-> dbt, mem |-> mem, frees |-> 0]

FreeBufs == {b \in BufIds : heap[b].h = "none"}
FirstOf(bs) == CHOOSE b \in bs : \A c \in bs : b <= c

\* let v = db.get(None, key, flags): the caller keeps the returned DBT.
GetHeld(k) ==
    /\ ~halted
    /\ dbArc[DataDb].strong >= 1
    /\ FreeBufs # {}
    /\ \E o \in Eng_get(eng, unwrap_txn_ptr(0), SliceDbt(KeyBytes(k))) :
        LET r == Once(Run(eng), "get", DataDb, o)
            res == GetResult(o)
            b == FirstOf(FreeBufs)
        IN  /\ eng' = r.e
            /\ halted' = r.halt
            /\ heap' = IF res.ok /\ IsSome(res.val)
                       THEN [heap EXCEPT ![b] = Hold(Unwrap(res.val), "engine")]
                       ELSE heap
            /\ last' = [Op("get", 0, DataDb, r, o.status, res) EXCEPT
                            !.k = k, !.b = IF res.ok /\ IsSome(res.val) THEN b ELSE 0]
    /\ UNCHANGED <<envArc, dbArc, bld, txns, curs, written, ebld, thr, durable>>

\* let (key, data) = cursor.next(): the caller keeps the two returned DBTs.
NextHeld ==
    /\ ~halted
    /\ curs.h = "live"
    /\ Cardinality(FreeBufs) >= 2
    /\ \E o \in Eng_c_get(eng, DataDb) :
        LET r == Once(Run(eng), "c_get", DataDb, o)
            res == NextResult(o)
            b1 == FirstOf(FreeBufs)
            b2 == FirstOf(FreeBufs \ {b1})
        IN  /\ eng' = r.e
            /\ halted' = r.halt
            /\ heap' = IF res.ok
                       THEN [heap EXCEPT ![b1] = Hold(Unwrap(res.val[1]), "engine"),
                                         ![b2] = Hold(Unwrap(res.val[2]), "engine")]
                       ELSE heap
            /\ last' = [Op("next", 0, DataDb, r, o.status, res) EXCEPT
                            !.b = IF res.ok THEN b1 ELSE 0]
    /\ UNCHANGED <<envArc, dbArc, bld, txns, curs, written, ebld, thr, durable>>

\* DBT::Owned(&key): the caller wraps its own bytes.
Borrow(k) ==
    /\ ~halted
    /\ FreeBufs # {}
    /\ heap' = [heap EXCEPT ![FirstOf(FreeBufs)] = Hold(DBTOwned(KeyBytes(k)), "caller")]
    /\ last' = [NoLast EXCEPT !.op = "owned", !.k = k, !.b = FirstOf(FreeBufs)]
    /\ UNCHANGED <<envArc, dbArc, bld, txns, curs, eng, written, halted, ebld, thr, durable>>

\* dbt.as_slice() on a DBT the caller holds.
BufRead(b) ==
    /\ ~halted
    /\ heap[b].h = "held"
    /\ last' = [NoLast EXCEPT !.op = "as_slice", !.b = b, !.v = as_slice(heap[b].dbt)]
    /\ UNCHANGED <<envArc, dbArc, bld, txns, curs, eng, written, halted, ebld, heap,
                   thr, durable>>

\* A DBT the caller holds goes out of scope.
BufRelease(b) ==
    /\ ~halted
    /\ heap[b].h = "held"
    /\ heap' = [heap EXCEPT ![b] = DBTDrop(heap[b])]
    /\ last' = [NoLast EXCEPT !.op = "dbt_drop", !.b = b]
    /\ UNCHANGED <<envArc, dbArc, bld, txns, curs, eng, written, halted, ebld, thr, durable>>

NextBuffers ==
    \/ \E k \in Keys, v \in ValIds, f \in PutFlags : Put(0, k, v, f)
    \/ \E k \in Keys : GetHeld(k)
    \/ CursorOpen
    \/ NextHeld
    \/ \E k \in Keys : Borrow(k)
    \/ \E b \in BufIds : BufRead(b)
    \/ \E b \in BufIds : BufRelease(b)

SpecBuffers == InitData /\ [][NextBuffers]_vars

EnvOpenResult(o) == IF o.status = 0 THEN Ok(<<"env">>) ELSE Err(ErrorNew(o.status))

BuilderPtrNulled(status, ptr) == 0

BuilderPtrKept(status, ptr) == ptr

\* self.env_ptr after the match in open: null once the Env has taken it.
BuilderPtrAfterOpen(status, ptr) == IF status = 0 THEN 0 ELSE ptr

EnvironmentBuilderDropLeak(r, ptr) == {r}

\* impl Drop for EnvironmentBuilder
EnvironmentBuilderDrop(r, ptr) ==
    IF r.halt \/ ptr = 0 THEN {r}
    ELSE {After(r, "env_close", 0, Discard(o)) : o \in Eng_env_close(r.e)}

\* EnvironmentBuilder::new(): panics when db_env_create fails.
EnvBuilderNew ==
    /\ ~halted
    /\ ebld.st = "none" /\ ebld.runs < MaxRuns
    /\ envArc.strong = 0 /\ eng.env \in {"none", "closed"}
    /\ \E o \in Eng_env_create(eng) :
        LET r == After(Run(eng), "env_create", 0, o) IN
        /\ eng' = r.e
        /\ halted' = (o.status # 0)
        /\ ebld' = IF o.status = 0
                   THEN [NoEbld EXCEPT !.st = "cfg", !.ptr = 1, !.runs = ebld.runs + 1]
                   ELSE ebld
        /\ last' = Op("env_builder_new", 0, 0, r, o.status, Ok(<< >>))
    /\ UNCHANGED <<envArc, dbArc, bld, txns, curs, written, heap, thr, durable>>

SetFieldOnce(old, new) == IF old = 0 THEN new ELSE old

\* self.home = ..; self.flags = flags; self.mode = mode
SetField(old, new) == new

\* The arguments of env->open: home_ptr, self.flags.bits(), self.mode.
OpenArgs(b) == <<b.val["home"], b.val["flags"], b.val["mode"]>>

\* EnvironmentBuilder::home / flags / mode
EnvBuilderSet(f, x) ==
    /\ ~halted
    /\ ebld.st = "cfg"
    /\ ebld' = [ebld EXCEPT !.set = @ \cup {f}, !.val[f] = SetField(@, x)]
    /\ last' = [NoLast EXCEPT !.op = "env_builder_set", !.v = <<f, x>>]
    /\ UNCHANGED <<envArc, dbArc, bld, txns, curs, eng, written, halted, heap, thr,
                   durable>>

\* EnvironmentBuilder::open(): env->open, the result, and the drop of the
\* consumed builder.
EnvBuilderOpen ==
    /\ ~halted
    /\ ebld.st = "cfg"
    /\ \E o \in Eng_env_open(eng) :
        LET r1 == After(Run(eng), "env_open", 0, o) IN
        \E r \in EnvironmentBuilderDrop(r1, BuilderPtrAfterOpen(o.status, ebld.ptr)) :
            /\ eng' = r.e
            /\ halted' = r.halt
            /\ envArc' = IF o.status = 0 THEN [strong |-> 1, user |-> 1] ELSE envArc
            /\ last' = [Op("env_open", 0, 0, r, o.status, EnvOpenResult(o)) EXCEPT
                            !.v = OpenArgs(ebld)]
    /\ ebld' = [NoEbld EXCEPT !.runs = ebld.runs]
    /\ UNCHANGED <<dbArc, bld, txns, curs, written, heap, thr, durable>>

\* The EnvironmentBuilder goes out of scope without open().
EnvBuilderDrop ==
    /\ ~halted
    /\ ebld.st = "cfg"
    /\ \E r \in EnvironmentBuilderDrop(Run(eng), ebld.ptr) :
        /\ eng' = r.e
        /\ halted' = r.halt
        /\ last' = [Op("env_builder_drop", 0, 0, r, 0, Ok(<< >>)) EXCEPT
                        !.act = ("home" \in ebld.set)]
    /\ ebld' = [NoEbld EXCEPT !.runs = ebld.runs]
    /\ UNCHANGED <<envArc, dbArc, bld, txns, curs, written, heap, thr, durable>>

\* Before EnvironmentBuilder::new(): no environment, no handle.
InitEnv ==
    /\ envArc = [strong |-> 0, user |-> 0]
    /\ dbArc = [d \in DbIds |-> [strong |-> 0, env |-> FALSE]]
    /\ bld = NoBld
    /\ txns = [t \in TxnIds |-> NoTxn]
    /\ curs = NoCur
    /\ eng = [InitEng EXCEPT !.env = "none"]
    /\ last = NoLast
    /\ written = << >>
    /\ halted = FALSE
    /\ ebld = NoEbld
    /\ heap = NoHeap
    /\ thr = NoThr
    /\ durable = NoWrites

NextEnv ==
    \/ EnvBuilderNew
    \/ \E f \in EnvSettings : f \notin ebld.set /\ EnvBuilderSet(f, 1)
    \/ EnvBuilderOpen
    \/ EnvBuilderDrop
    \/ EnvRelease
    \/ BuilderNew
    \/ BuilderEnvironment
    \/ BuilderOpen
    \/ \E d \in DbIds : DbRelease(d)
    \/ \E k \in Keys, v \in ValIds, f \in PutFlags : Put(0, k, v, f)
    \/ \E k \in Keys : Get(0, k)

SpecEnv == InitEnv /\ [][NextEnv]_vars

EnvCloses(calls) == Cardinality({i \in DOMAIN calls : calls[i].op = "env_close"})

\* C14: when EnvironmentBuilder::open fails it returns an Error with the
\* engine's status, produces no Environment, and the native environment the
\* builder allocated is closed exactly once.
C14_FailedOpenCloses ==
    (last.op = "env_open" /\ last.status # 0 /\ last.calls[1].bad = "") =>
        /\ last.res = Err(ErrorNew(last.status))
        /\ envArc = [strong |-> 0, user |-> 0]
        /\ EnvCloses(last.calls) = 1
        /\ eng.env = "closed" /\ eng.envCloses = 1

\* open() failed for the second EnvironmentBuilder of the behaviour.
C14_Witness ==
    /\ last.op = "env_open" /\ last.status = OsErrno.ENOENT
    /\ ebld.runs = MaxRuns
    /\ last.calls[2].op = "env_close" /\ eng.envCloses = 1

\* C15: an EnvironmentBuilder dropped without open() closes the native
\* environment it allocated exactly once.
C15_DroppedBuilderCloses ==
    last.op = "env_builder_drop" =>
        /\ EnvCloses(last.calls) = 1 /\ Len(last.calls) = 1
        /\ last.calls[1].bad = ""
        /\ eng.env = "closed" /\ eng.envCloses = 1

\* A builder whose home was set was dropped without open().
C15_Witness ==
    /\ last.op = "env_builder_drop" /\ last.act
    /\ eng.env = "closed" /\ eng.envCloses = 1

\* C17: a record stored by a put(None, ..) that returned Ok in an earlier run,
\* before the Environment was closed, is returned by get(None, ..) in a later
\* run, after the environment and the database were opened again.
C17_ReopenPreserves ==
    (/\ last.op = "get" /\ ~halted
     /\ durable[last.k] # None
     /\ Unwrap(durable[last.k]).run < ebld.runs) =>
        /\ last.res.ok /\ IsSome(last.res.val)
        /\ last.v = Unwrap(durable[last.k]).v

\* A get through a Database opened against the second Environment returned
\* the bytes put in the first run.
C17_Witness ==
    /\ last.op = "get" /\ last.res.ok /\ IsSome(last.res.val)
    /\ ebld.runs = 2 /\ envArc.user = 1 /\ dbArc[DataDb].env
    /\ durable[last.k] # None
    /\ Unwrap(durable[last.k]).run = 1 /\ Unwrap(durable[last.k]).env
    /\ last.v = Unwrap(durable[last.k]).v /\ Len(last.v) > 0
    /\ \E k \in Keys \ {last.k} : durable[k] = None

(* ------------------------- handles and threads ------------------------ *)
ArcLastAlways(old) == TRUE

\* Arc::drop: the value is dropped by the drop whose atomic decrement found
\* the count at one.
ArcLast(old) == old = 1

\* The Environment (Database) handles the threads 1..n hold.
RECURSIVE HeldBy(_, _)
HeldBy(n, kind) ==
    IF n = 0 THEN 0
    ELSE (IF kind = "env" THEN thr[n].env ELSE thr[n].db) + HeldBy(n - 1, kind)

\* Arc::clone of an Environment by a thread that holds one; the clone is
\* given to thread `to`.
ThreadEnvClone(th, to) ==
    /\ ~halted
    /\ thr[th].pc = "idle" /\ thr[th].env >= 1
    /\ HeldBy(MaxThreads, "env") < MaxEnvRefs
    /\ envArc' = [strong |-> envArc.strong + 1, user |-> envArc.user + 1]
    /\ thr' = [thr EXCEPT ![to].env = @ + 1]
    /\ last' = [NoLast EXCEPT !.op = "env_clone", !.t = th]
    /\ UNCHANGED <<dbArc, bld, txns, curs, eng, written, halted, ebld, heap, durable>>

\* Drop of an Environment handle, first step: the atomic decrement.
ThreadEnvDec(th) ==
    /\ ~halted
    /\ thr[th].pc = "idle" /\ thr[th].env >= 1
    /\ envArc' = [strong |-> envArc.strong - 1, user |-> envArc.user - 1]
    /\ thr' = [thr EXCEPT ![th].env = @ - 1,
                          ![th].pc = IF ArcLast(envArc.strong) THEN "env_last" ELSE "idle"]
    /\ last' = [NoLast EXCEPT !.op = "env_dec", !.t = th]
    /\ UNCHANGED <<dbArc, bld, txns, curs, eng, written, halted, ebld, heap, durable>>

\* Second step, taken by the thread whose decrement was the last: Drop for Env.
ThreadEnvDropInner(th) ==
    /\ ~halted
    /\ thr[th].pc = "env_last"
    /\ \E r \in EnvDrop(Run(eng)) :
        /\ eng' = r.e
        /\ halted' = r.halt
        /\ last' = Op("env_drop", th, 0, r, 0, Ok(<< >>))
    /\ thr' = [thr EXCEPT ![th].pc = "idle"]
    /\ UNCHANGED <<envArc, dbArc, bld, txns, curs, written, ebld, heap, durable>>

\* Arc::clone of a Database by a thread that holds one.
ThreadDbClone(th, to) ==
    /\ ~halted
    /\ thr[th].pc = "idle" /\ thr[th].db >= 1
    /\ HeldBy(MaxThreads, "db") < MaxDbRefs
    /\ dbArc' = [dbArc EXCEPT ![DataDb].strong = @ + 1]
    /\ thr' = [thr EXCEPT ![to].db = @ + 1]
    /\ last' = [NoLast EXCEPT !.op = "db_clone", !.t = th, !.d = DataDb]
    /\ UNCHANGED <<envArc, bld, txns, curs, eng, written, halted, ebld, heap, durable>>

\* Drop of a Database handle, first step: the atomic decrement.
ThreadDbDec(th) ==
    /\ ~halted
    /\ thr[th].pc = "idle" /\ thr[th].db >= 1
    /\ dbArc' = [dbArc EXCEPT ![DataDb].strong = @ - 1]
    /\ thr' = [thr EXCEPT ![th].db = @ - 1,
                          ![th].pc = IF ArcLast(dbArc[DataDb].strong) THEN "db_last"
                                     ELSE "idle"]
    /\ last' = [NoLast EXCEPT !.op = "db_dec", !.t = th, !.d = DataDb]
    /\ UNCHANGED <<envArc, bld, txns, curs, eng, written, halted, ebld, heap, durable>>

\* Second step, taken by the thread whose decrement was the last: Drop for Db,
\* then the drop of the Db's env field, itself an atomic decrement.
ThreadDbDropInner(th) ==
    /\ ~halted
    /\ thr[th].pc = "db_last"
    /\ \E o \in Eng_db_close(eng, DataDb) :
        LET r == After(Run(eng), "db_close", DataDb, o) IN
        /\ eng' = r.e
        /\ halted' = r.halt
        /\ last' = Op("db_drop", th, DataDb, r, 0, Ok(<< >>))
    /\ envArc' = IF dbArc[DataDb].env THEN [envArc EXCEPT !.strong = @ - 1] ELSE envArc
    /\ thr' = [thr EXCEPT ![th].pc = IF dbArc[DataDb].env /\ ArcLast(envArc.strong)
                                     THEN "env_last" ELSE "idle"]
    /\ UNCHANGED <<dbArc, bld, txns, curs, written, ebld, heap, durable>>

\* After open_test_db, the two handles held by the first thread.
InitThreads ==
    /\ envArc = [strong |-> 2, user |-> 1]
    /\ dbArc = [d \in DbIds |-> IF d = DataDb THEN [strong |-> 1, env |-> TRUE]
                                ELSE [strong |-> 0, env |-> FALSE]]
    /\ bld = NoBld
    /\ txns = [t \in TxnIds |-> NoTxn]
    /\ curs = NoCur
    /\ eng = [InitEng EXCEPT !.db[DataDb] = [st |-> "open", env |-> TRUE, closes |-> 0]]
    /\ last = NoLast
    /\ written = << >>
    /\ halted = FALSE
    /\ ebld = NoEbld
    /\ heap = NoHeap
    /\ thr = [NoThr EXCEPT ![1].env = 1, ![1].db = 1]
    /\ durable = NoWrites

NextThreads ==
    \/ \E th \in Threads, to \in Threads : ThreadEnvClone(th, to)
    \/ \E th \in Threads : ThreadEnvDec(th)
    \/ \E th \in Threads : ThreadEnvDropInner(th)
    \/ \E th \in Threads, to \in Threads : ThreadDbClone(th, to)
    \/ \E th \in Threads : ThreadDbDec(th)
    \/ \E th \in Threads : ThreadDbDropInner(th)

SpecThreads == InitThreads /\ [][NextThreads]_vars

Dropping(pc) == {th \in Threads : thr[th].pc = pc}

\* C19: under every interleaving of the threads' clones and drops, the native
\* handle of the Environment (of the Database) is closed once, by the drop of
\* the last reference, and never while a reference exists.
C19_ClosedOnceByLastDrop ==
    /\ eng.envCloses <= 1 /\ eng.db[DataDb].closes <= 1
    /\ \A i \in DOMAIN last.calls : last.calls[i].bad = ""
    /\ ~halted
    /\ eng.env = "closed" =>
          /\ HeldBy(MaxThreads, "env") = 0 /\ envArc.strong = 0
          /\ eng.db[DataDb].st = "closed"
    /\ eng.db[DataDb].st = "closed" =>
          HeldBy(MaxThreads, "db") = 0 /\ dbArc[DataDb].strong = 0
    /\ (HeldBy(MaxThreads, "db") = 0 /\ Dropping("db_last") = {}) =>
          eng.db[DataDb].st = "closed" /\ eng.db[DataDb].closes = 1
    /\ (HeldBy(MaxThreads, "env") = 0 /\ HeldBy(MaxThreads, "db") = 0
           /\ Dropping("db_last") = {} /\ Dropping("env_last") = {}) =>
          eng.env = "closed" /\ eng.envCloses = 1
    /\ Cardinality(Dropping("db_last")) <= 1 /\ Cardinality(Dropping("env_last")) <= 1

\* The first thread has dropped every handle it held, and the drop of an
\* Environment handle by the second thread, the last reference, closed the
\* environment after the database was closed.
C19_Witness ==
    /\ last.op = "env_drop" /\ last.t = 2
    /\ thr[1].env = 0 /\ thr[1].db = 0 /\ thr[1].pc = "idle"
    /\ eng.env = "closed" /\ eng.envCloses = 1
    /\ eng.db[DataDb].st = "closed" /\ eng.db[DataDb].closes = 1

(* ------------------------ a Database shared by threads ---------------- *)
\* Two engine calls at work on one handle that is not free-threaded: a data
\* race inside the engine. The call may do its work or lose it, report an
\* error, or end the process.
Eng_put_raced(e, keyDbt, dataDbt) ==
    {Out([e EXCEPT !.store[KeyOf(keyDbt)] = Some(SubSeq(dataDbt.data, 1, dataDbt.size))],
         0, "race", FALSE),
     Out(e, 0, "race", FALSE),
     Out(e, OsErrno.EINVAL, "race", FALSE),
     Out(e, OsErrno.EINVAL, "race", TRUE)}

\* The threads other than th whose put is inside the engine.
InPut(th) == {u \in Threads \ {th} : thr[u].pc = "put"}

\* A thread that holds the Database calls put(None, key, data, DB_NONE): the
\* layer builds the two DBTs on the thread's stack and enters the engine.
ThreadPutCall(th, k, v) ==
    /\ ~halted
    /\ thr[th].pc = "idle" /\ thr[th].db >= 1 /\ thr[th].put.ret = None
    /\ LET race == ~eng.thread /\ InPut(th) # {}
       IN  thr' = [u \in Threads |->
                     IF u = th
                     THEN [thr[u] EXCEPT !.pc = "put",
                                         !.put = [NoPut EXCEPT !.k = k, !.v = v,
                                                               !.race = race]]
                     ELSE IF race /\ u \in InPut(th)
                     THEN [thr[u] EXCEPT !.put.race = TRUE]
                     ELSE thr[u]]
    /\ last' = [NoLast EXCEPT !.op = "put_call", !.t = th, !.d = DataDb, !.k = k]
    /\ UNCHANGED <<envArc, dbArc, bld, txns, curs, eng, written, halted, ebld, heap,
                   durable>>

\* The engine's put returns to the thread and Db::put matches on its status.
ThreadPutReturn(th) ==
    /\ ~halted
    /\ thr[th].pc = "put"
    /\ LET k == thr[th].put.k
           v == thr[th].put.v
           outs == IF eng.db[DataDb].st # "open" THEN Dangling(eng, "put")
                   ELSE IF thr[th].put.race
                   THEN Eng_put_raced(eng, SliceDbt(KeyBytes(k)), SliceDbt(ValBytes(v)))
                   ELSE Eng_put(eng, unwrap_txn_ptr(0), SliceDbt(KeyBytes(k)),
                                SliceDbt(ValBytes(v)), "DB_NONE")
       IN  \E o \in outs :
             LET r == Once(Run(eng), "put", DataDb, o) IN
             /\ eng' = r.e
             /\ halted' = r.halt
             /\ thr' = [thr EXCEPT ![th].pc = "idle", ![th].put.ret = Some(PutResult(o))]
             /\ last' = [Op("thread_put", th, DataDb, r, o.status, PutResult(o)) EXCEPT
                             !.k = k, !.v = ValBytes(v)]
    /\ UNCHANGED <<envArc, dbArc, bld, txns, curs, written, ebld, heap, durable>>

\* After open_test_db, with or without the free-threaded flag, and a clone of
\* the Database given to the second thread.
InitShared ==
    /\ envArc = [strong |-> 2, user |-> 1]
    /\ dbArc = [d \in DbIds |-> IF d = DataDb THEN [strong |-> 2, env |-> TRUE]
                                ELSE [strong |-> 0, env |-> FALSE]]
    /\ bld = NoBld
    /\ txns = [t \in TxnIds |-> NoTxn]
    /\ curs = NoCur
    /\ \E f \in BOOLEAN :
          eng = [InitEng EXCEPT !.thread = f,
                                !.db[DataDb] = [st |-> "open", env |-> TRUE, closes |-> 0]]
    /\ last = NoLast
    /\ written = << >>
    /\ halted = FALSE
    /\ ebld = NoEbld
    /\ heap = NoHeap
    /\ thr = [NoThr EXCEPT ![1].env = 1, ![1].db = 1, ![2].db = 1]
    /\ durable = NoWrites

\* The threads put and drop their handles; a get is made by the thread that
\* has joined the others.
NextShared ==
    \/ \E th \in Threads, k \in Keys, v \in ValIds : ThreadPutCall(th, k, v)
    \/ \E th \in Threads : ThreadPutReturn(th)
    \/ \E th \in Threads : ThreadDbDec(th)
    \/ \E th \in Threads : ThreadDbDropInner(th)
    \/ \E k \in Keys : (\A th \in Threads : thr[th].pc = "idle") /\ Get(0, k)

SpecShared == InitShared /\ [][NextShared]_vars

\* Every thread's put has returned, and no two of them were on one key.
PutsDone ==
    /\ \A th \in Threads : thr[th].put.ret # None
    /\ \A th, u \in Threads : th # u => thr[th].put.k # thr[u].put.k

\* C22 as stated, for any Database: the puts of two threads on distinct keys
\* both return Ok, and a get made after both returns each thread's value.
C22_SharedPutsSucceed ==
    /\ last.op = "thread_put" => last.res.ok
    /\ (last.op = "get" /\ PutsDone) =>
          \A th \in Threads :
             thr[th].put.k = last.k =>
                /\ last.res.ok /\ IsSome(last.res.val)
                /\ last.v = ValBytes(thr[th].put.v)

\* C22 for a Database opened against an Environment whose handles are
\* free-threaded.
C22_FreeThreadedPutsSucceed == eng.thread => C22_SharedPutsSucceed

\* On free-threaded handles the puts of the two threads, on distinct keys,
\* have both returned Ok, and the get of the first thread's key returned the
\* value that thread wrote.
C22_Witness ==
    /\ eng.thread /\ PutsDone
    /\ last.op = "get" /\ last.k = thr[1].put.k
    /\ last.res.ok /\ last.v = ValBytes(thr[1].put.v)
    /\ \A th \in Threads : Unwrap(thr[th].put.ret).ok

(* ------------------ a Database released under a transaction ----------- *)
\* Transactions, puts under them, and the release of the Database.
NextTxnDb ==
    \/ Begin(0)
    \/ \E t \in TxnIds : Commit(t)
    \/ \E t \in TxnIds : Abort(t)
    \/ \E t \in TxnIds : TxnRelease(t)
    \/ \E t \in {0} \cup TxnIds, k \in Keys, v \in ValIds : Put(t, k, v, "DB_NONE")
    \/ \E k \in Keys : Get(0, k)
    \/ DbRelease(DataDb)

SpecTxnDb == InitData /\ [][NextTxnDb]_vars

\* The Transactions still held whose engine transaction is unresolved and
\* under which a put on the Database returned Ok.
UnresolvedWriters ==
    {t \in TxnIds : /\ txns[t].h = "live"
                    /\ TxnActive(eng, txns[t].ptr)
                    /\ \E k \in Keys : txns[t].put[k] # None}

\* C23: the engine close of a Database is not issued while a Transaction
\* under which the Database was mutated is unresolved.
C23_DbClosedAfterResolution ==
    \A i \in DOMAIN last.calls :
        (last.calls[i].op = "db_close" /\ last.calls[i].h = DataDb) =>
            UnresolvedWriters = {}

(* ------------------------- one engine call each ----------------------- *)
\* Transactions, puts and gets under them, and a cursor over the Database.
NextCalls ==
    \/ Begin(0)
    \/ \E t \in TxnIds : Commit(t)
    \/ \E t \in TxnIds : Abort(t)
    \/ \E t \in {0} \cup TxnIds, k \in Keys : Put(t, k, 1, "DB_NONE")
    \/ \E t \in {0} \cup TxnIds, k \in Keys : Get(t, k)
    \/ CursorOpen
    \/ CursorNext

SpecCalls == InitData /\ [][NextCalls]_vars

\* The engine function each operation calls.
EngineCallOf ==
    [get |-> "get", put |-> "put", next |-> "c_get", begin |-> "txn_begin",
     commit |-> "txn_commit", abort |-> "txn_abort"]

\* C25: get, put, next, begin, commit and abort each issue exactly one engine
\* call and return its status; a deadlock status is returned as an Error
\* after that one call, and the Transaction the get or put was made under is
\* still held and unresolved.
C25_OneCallNoRetry ==
    last.op \in DOMAIN EngineCallOf =>
        /\ Len(last.calls) = 1
        /\ last.calls[1].op = EngineCallOf[last.op]
        /\ last.calls[1].status = last.status
        /\ last.status = DB_LOCK_DEADLOCK =>
              /\ ~last.res.ok /\ errno(last.res.err) = DB_LOCK_DEADLOCK
              /\ (last.op \in {"get", "put"} /\ last.t # 0) =>
                    txns[last.t].h = "live" /\ TxnActive(eng, txns[last.t].ptr)

\* A put under a transaction, on a key another unresolved transaction has
\* written, returned the deadlock Error after one engine call; the
\* transaction is still unresolved.
C25_Witness ==
    /\ last.op = "put" /\ last.t # 0 /\ last.status = DB_LOCK_DEADLOCK
    /\ Len(last.calls) = 1
    /\ ~last.res.ok /\ errno(last.res.err) = DB_LOCK_DEADLOCK
    /\ txns[last.t].h = "live" /\ TxnActive(eng, txns[last.t].ptr)

\* C28: after an open() that returned Ok the consumed builder's release
\* issues no close; the environment is open while a reference to it exists,
\* and it is closed exactly once, by the drop of the last reference.
C28_EnvClosedOnceByLastRef ==
    /\ eng.envCloses <= 1
    /\ (last.op = "env_open" /\ last.status = 0) =>
          /\ \A i \in DOMAIN last.calls : last.calls[i].op # "env_close"
          /\ eng.env = "open" /\ envArc.strong = 1
    /\ envArc.strong >= 1 => eng.env = "open" /\ eng.envCloses = 0
    /\ (envArc.strong = 0 /\ ebld.st = "none" /\ ebld.runs >= 1 /\ ~halted) =>
          eng.env = "closed" /\ eng.envCloses = 1
    /\ last.op = "env_drop" =>
          \A i \in DOMAIN last.calls :
             last.calls[i].op = "env_close" =>
                last.calls[i].bad = "" /\ envArc.strong = 0

\* The Environment returned by open() was the only reference; its drop
\* issued the one close of the environment.
C28_Witness ==
    /\ last.op = "env_drop" /\ envArc.strong = 0 /\ ebld.st = "none"
    /\ Len(last.calls) = 1 /\ last.calls[1].op = "env_close" /\ last.calls[1].status = 0
    /\ eng.env = "closed" /\ eng.envCloses = 1

(* ------------------------- builder configuration ---------------------- *)
\* The two builders: every configuration method with every value, any
\* number of times, open and drop.
NextConfig ==
    \/ EnvBuilderNew
    \/ \E f \in EnvSettings, x \in ValIds : EnvBuilderSet(f, x)
    \/ EnvBuilderOpen
    \/ EnvBuilderDrop
    \/ Begin(0)
    \/ BuilderNew
    \/ BuilderEnvironment
    \/ \E t \in TxnIds : BuilderTransaction(t)
    \/ BuilderOpen

SpecConfig == InitEnv /\ [][NextConfig]_vars

ResultOps == {"get", "put", "cursor", "next", "begin", "commit", "abort",
              "env_open", "db_open"}

\* The statuses an engine call may return: zero, the engine's own codes and
\* the operating system's error numbers.
Statuses ==
    {0, DB_BUFFER_SMALL, DB_KEYEXIST, DB_LOCK_DEADLOCK, DB_LOCK_NOTGRANTED,
     DB_LOG_BUFFER_FULL, DB_NOTFOUND, DB_RUNRECOVERY} \cup 1..MaxErrno

\* What each operation returns for an outcome of its engine call.
ResultOf(op, o) ==
    CASE op = "get" -> GetResult(o)
      [] op = "put" -> PutResult(o)
      [] op = "cursor" -> CursorResult(o)
      [] op = "next" -> NextResult(o)
      [] op = "begin" -> TxnResult(o, 1)
      [] op = "commit" -> CommitResult(o)
      [] op = "abort" -> AbortResult(o)
      [] op = "env_open" -> EnvOpenResult(o)
      [] op = "db_open" -> DbOpenResult(o, 1)

\* The engine call of operation `op` returns `status`.
Returns(op, status) ==
    /\ last' = [NoLast EXCEPT !.op = op, !.status = status,
                              !.res = ResultOf(op, Out(eng, status, "", FALSE))]
    /\ UNCHANGED <<envArc, dbArc, bld, txns, curs, eng, written, halted, ebld, heap,
                   thr, durable>>

NextStatus == \E op \in ResultOps, status \in Statuses : Returns(op, status)

SpecStatus == InitEnv /\ [][NextStatus]_vars

\* C20: a non-zero engine status returned to get (not-found apart), put,
\* cursor, next, begin, commit, abort, environment open or database open is
\* returned as an Error whose errno() is that status; a zero status is never
\* returned as an Error.
C20_StatusIsErrno ==
    last.op \in ResultOps =>
        IF last.status = 0 \/ (last.op = "get" /\ last.status = DB_NOTFOUND)
        THEN last.res.ok
        ELSE ~last.res.ok /\ errno(last.res.err) = last.status

\* next() was given DB_NOTFOUND by the engine and returned an Error with
\* that errno.
C20_Witness ==
    /\ last.op = "next" /\ last.status = DB_NOTFOUND
    /\ ~last.res.ok /\ errno(last.res.err) = DB_NOTFOUND

\* The status codes the errors module names for the outcomes a caller
\* branches on: not found, key exists, deadlock, lock not granted, run
\* recovery, buffer too small.
CategoryCodes ==
    <<DB_NOTFOUND, DB_KEYEXIST, DB_LOCK_DEADLOCK, DB_LOCK_NOTGRANTED, DB_RUNRECOVERY,
      DB_BUFFER_SMALL>>

\* The categories an Error falls into, read from its errno(): the index of
\* each named code it equals, or 0 (generic, the code itself) if it equals none.
Categories(err) ==
    LET named == {i \in 1..Len(CategoryCodes) : CategoryCodes[i] = errno(err)}
    IN  IF named = {} THEN {0} ELSE named

====
